---- MODULE Spec2Model ----
(***************************************************************************)
(* ASH (AI Scheduling Helper) backend:                                     *)
(*   EngineSpec      the free/busy interval search of GoogleAPIService     *)
(*                   (ash_backend/config/google.js);                       *)
(*   AgentSpec       the tool-calling turn of ASHAgent.processRequest,     *)
(*                   AgentLiveSpec the same turn with fairness;            *)
(*   CredentialSpec  concurrent requests on the GoogleAPIService singleton *)
(*                   and its one OAuth client;                             *)
(*   EventSpec       the event tools and event routes on the Event         *)
(*                   collection;                                           *)
(*   ReminderSpec    ReminderService and its cron jobs.                    *)
(*                                                                         *)
(* Timestamps of the interval search are JavaScript Date values, i.e.      *)
(* integers in milliseconds, and its duration a number of minutes; the     *)
(* event and reminder models count time in minutes.                        *)
(***************************************************************************)
EXTENDS Integers, Sequences, FiniteSets, TLC

VARIABLES
    \* ---- one caller of GoogleAPIService.calculateFreeSlots ----
    windowStart,    \* argument startTime (ms)
    windowEnd,      \* argument endTime (ms)
    minDuration,    \* argument duration (minutes)
    busy,           \* the caller's busyTimes array object (sorted in place by the call)
    callerBusy,     \* history: that array as it was before the first call
    freeSlots,      \* value returned by the latest call
    firstSlots,     \* history: value returned by the first call
    calls,          \* number of completed calls on this array object
    outcome,        \* "none" | "returned" | "threw": how the latest call ended
    \* ---- one turn: one call of ASHAgent.processRequest ----
    pc,                 \* the await the turn is suspended at, or "done" / "rejected"
    streaming,          \* options.streaming && options.streamCallback
    sessionId,          \* TRUE when options.sessionId is given
    firstReturned,      \* the first chat-completion call has returned a response
    firstResponse,      \* response.choices[0].message of the first call
    toolIndex,          \* position of executeTools' for-loop in toolCalls
    toolResults,        \* executeTools' results array
    finalResponse,      \* which text the local finalResponse holds
    modelCalls,         \* chat.completions.create calls issued in the turn
    failedModelCalls,   \* how many of them rejected
    dispatchRounds,     \* calls of executeTools in the turn
    secondHasToolCalls, \* the finalize response again carried tool_calls
    result,             \* value processRequest resolved with
    chat,               \* the chat-store's document of the session: found, n messages
    messages,           \* the local messages array
    sent,               \* history: the messages argument of each model call issued
    executions,         \* history: the loop iterations of executeTools
    storeFailures,      \* history: rejected Log / Chat store calls of the turn
    utteranceStored,    \* the caller has stored the new utterance in the session
    \* ---- requests sharing the GoogleAPIService singleton ----
    requestUser,        \* request -> userId the request is served for
    requestOp,          \* request -> "getFreeSlots" | "createEvent"
    requestPc,          \* request -> the await the request is suspended at
    oauthCredentials,   \* credentials held by this.oauth2Client: "none" or a userId
    apiCalls,           \* history: the calendar API calls issued
    \* ---- the Event collection and one operation on it ----
    events,             \* eventId -> stored Event document (or none)
    eventsBefore,       \* history: the collection before the operation
    lastOp,             \* history: the operation performed, its result and calls
    \* ---- the ReminderService singleton, node-cron and one event ----
    now,                \* the clock, in minutes
    doc,                \* the event's document in the store
    isRunning,          \* this.isRunning
    reminderJob,        \* this.reminderJob: "none" | "active" | "destroyed"
    jobs,               \* this.jobs entry of the event: a cron job id, or 0 for none
    cronJobs,           \* job id -> the per-event cron job is still scheduled
    sweepDue,           \* node-cron owes the sweep job its firing of this minute
    dueJobs,            \* per-event jobs node-cron owes a firing of this minute
    tasks,              \* the callbacks fired so far, each with its position
    lastCall,           \* history: the latest call made on the service
    stoppedSince        \* history: stop() was called and start() not since

engineVars == <<windowStart, windowEnd, minDuration, busy, callerBusy,
                freeSlots, firstSlots, calls, outcome>>

agentVars == <<pc, streaming, sessionId, firstReturned, firstResponse, toolIndex,
               toolResults, finalResponse, modelCalls, failedModelCalls,
               dispatchRounds, secondHasToolCalls, result, chat, messages, sent,
               executions, storeFailures, utteranceStored>>

credentialVars == <<requestUser, requestOp, requestPc, oauthCredentials, apiCalls>>

eventVars == <<events, eventsBefore, lastOp>>

reminderVars == <<now, doc, isRunning, reminderJob, jobs, cronJobs, sweepDue,
                  dueJobs, tasks, lastCall, stoppedSince>>

serviceVars == <<credentialVars, eventVars, reminderVars>>

\* What the interval search, and what a turn, leaves alone.
outsideEngine == <<agentVars, serviceVars>>
outsideAgent == <<engineVars, serviceVars>>

vars == <<engineVars, agentVars, serviceVars>>

(***************************************************************************)
(* Bounds of the model.                                                    *)
(***************************************************************************)
MaxTick == 4        \* timestamps range over minutes 0 .. MaxTick
MaxBusy == 2        \* longest busy list returned by the calendar
MaxDuration == 2    \* largest requested duration, in minutes
MaxCalls == 2       \* calls made on the same busy array object
MaxToolCalls == 2   \* longest tool_calls list of a model response
MaxHistory == 7     \* most messages stored in a chat session before the turn
MaxRequests == 2    \* requests in flight on the GoogleAPIService singleton
MaxEvents == 2      \* documents the Event collection can hold
MaxStart == 2       \* start times range over ReminderMinutes * (1 .. MaxStart)
MaxNow == 2         \* the clock runs over minutes 0 .. MaxNow
MaxJobs == 2        \* per-event cron jobs created by scheduleReminder
MaxTasks == 3       \* cron callbacks fired

MsPerMinute == 60 * 1000
Tick == MsPerMinute
Times == {k * Tick : k \in 0..MaxTick}
Durations == 0..MaxDuration

\* A busy period as the calendar's free/busy query reports it: start < end.
Intervals == {iv \in [start : Times, end : Times] : iv.start < iv.end}

RECURSIVE SeqsUpTo(_, _)
SeqsUpTo(S, n) ==
    IF n = 0 THEN {<<>>}
    ELSE LET shorter == SeqsUpTo(S, n - 1)
         IN  shorter \cup {Append(s, x) : s \in {t \in shorter : Len(t) = n - 1}, x \in S}

BusyLists == SeqsUpTo(Intervals, MaxBusy)

Max(a, b) == IF a >= b THEN a ELSE b

(***************************************************************************)
(* Array.prototype.sort with the comparator                                *)
(*   (a, b) => new Date(a.start) - new Date(b.start)                       *)
(* The sort is stable: elements with equal start keep their order.         *)
(***************************************************************************)
RECURSIVE InsertByStart(_, _)
InsertByStart(sorted, x) ==
    IF sorted = <<>> THEN <<x>>
    ELSE LET last == sorted[Len(sorted)]
         IN  IF last.start - x.start > 0
             THEN Append(InsertByStart(SubSeq(sorted, 1, Len(sorted) - 1), x), last)
             ELSE Append(sorted, x)

RECURSIVE SortPrefix(_, _)
SortPrefix(busyTimes, n) ==
    IF n = 0 THEN <<>>
    ELSE InsertByStart(SortPrefix(busyTimes, n - 1), busyTimes[n])

\* A comparator that never returns a negative number, such as
\* (a, b) => a.start > b.start, leaves the array as it is.
SortNoOp(busyTimes) == busyTimes

SortByStart(busyTimes) == SortPrefix(busyTimes, Len(busyTimes))

(***************************************************************************)
(* The for-loop of calculateFreeSlots over the sorted busy times, from     *)
(* element i on, with the running cursor currentTime and the slots pushed  *)
(* so far.                                                                 *)
(***************************************************************************)
GapBeforeNoLengthTest(currentTime, busyStart, duration, slots) ==
    IF currentTime < busyStart
    THEN Append(slots, [start |-> currentTime, end |-> busyStart])
    ELSE slots

GapBefore(currentTime, busyStart, duration, slots) ==
    IF currentTime < busyStart
    THEN LET gapDuration == busyStart - currentTime
         IN  IF gapDuration >= duration * 60 * 1000
             THEN Append(slots, [start |-> currentTime, end |-> busyStart])
             ELSE slots
    ELSE slots

AdvanceToBusyEnd(currentTime, busyEnd) == busyEnd

Advance(currentTime, busyEnd) == Max(currentTime, busyEnd)

RECURSIVE ScanBusy(_, _, _, _, _)
ScanBusy(sortedBusyTimes, i, currentTime, duration, slots) ==
    IF i > Len(sortedBusyTimes)
    THEN [currentTime |-> currentTime, freeSlots |-> slots]
    ELSE LET busyStart == sortedBusyTimes[i].start
             busyEnd   == sortedBusyTimes[i].end
         IN  ScanBusy(sortedBusyTimes, i + 1,
                      Advance(currentTime, busyEnd), duration,
                      GapBefore(currentTime, busyStart, duration, slots))

GapAfterNoLengthTest(currentTime, endTime, duration, slots) ==
    IF currentTime < endTime
    THEN Append(slots, [start |-> currentTime, end |-> endTime])
    ELSE slots

GapAfter(currentTime, endTime, duration, slots) ==
    IF currentTime < endTime
    THEN LET remainingDuration == endTime - currentTime
         IN  IF remainingDuration >= duration * 60 * 1000
             THEN Append(slots, [start |-> currentTime, end |-> endTime])
             ELSE slots
    ELSE slots

(***************************************************************************)
(* calculateFreeSlots(startTime, endTime, busyTimes, duration).            *)
(* Returns the slots; busyTimes is what the caller's array holds after the *)
(* call (Array.prototype.sort sorts in place and returns the same array).  *)
(* The function has no throw statement.                                    *)
(***************************************************************************)
\* The loop written as while (busyTimes.length) { busyTimes.shift() ... }:
\* same slots, but the caller's array is consumed.
calculateFreeSlotsShift(startTime, endTime, busyTimes, duration) ==
    LET sortedBusyTimes == SortByStart(busyTimes)
        loop == ScanBusy(sortedBusyTimes, 1, startTime, duration, <<>>)
    IN  [freeSlots |-> GapAfter(loop.currentTime, endTime, duration, loop.freeSlots),
         busyTimes |-> <<>>,
         threw     |-> FALSE]

calculateFreeSlots(startTime, endTime, busyTimes, duration) ==
    LET sortedBusyTimes == SortByStart(busyTimes)
        loop == ScanBusy(sortedBusyTimes, 1, startTime, duration, <<>>)
    IN  [freeSlots |-> GapAfter(loop.currentTime, endTime, duration, loop.freeSlots),
         busyTimes |-> sortedBusyTimes,
         threw     |-> FALSE]

(***************************************************************************)
(* ASHAgent: the values a turn works with.                                 *)
(***************************************************************************)
\* The names of the switch in executeTools.
ToolNames == {"getFreeSlots", "createEvent", "updateEvent", "deleteEvent",
              "getUpcomingEvents", "sendInvite", "setReminder"}

\* What the model puts in function.name in this model: two declared tools
\* (one mutating, one reading) and a name that is no case of the switch.
ModelToolNames == {"createEvent", "getUpcomingEvents", "doSomethingElse"}

\* A tool call of a response: function.name, and whether function.arguments
\* is a string JSON.parse accepts. Its id is its position in the response.
ToolCalls == [name : ModelToolNames, argsOk : BOOLEAN]

\* message of a chat completion: content is a non-empty string or null;
\* tool_calls is absent (hasToolCalls = FALSE) or an array, possibly empty.
Responses ==
    {r \in [content : BOOLEAN, hasToolCalls : BOOLEAN,
            toolCalls : SeqsUpTo(ToolCalls, MaxToolCalls)] :
        ~r.hasToolCalls => r.toolCalls = <<>>}

NoResponse == [content |-> FALSE, hasToolCalls |-> FALSE, toolCalls |-> <<>>]
NoResult == [reply |-> "none", success |-> FALSE]

\* chat.getLastMessages(6) in processRequest.
ContextMessages == 6

\* An element of the messages array.  kind is "system" (the persona),
\* "history" (message idx of the stored session, with its role and content),
\* "user" (the new input), "assistant" (the first response's message) or
\* "tool" (content: JSON.stringify(toolResults), kept here as results).
Message(kind, idx, results) == [kind |-> kind, idx |-> idx, results |-> results]

\* chat.messages of a session holding n messages, oldest first.
ChatMessages(n) == [k \in 1..n |-> Message("history", k, <<>>)]

NoChat == [found |-> FALSE, n |-> 0]
Chats == {NoChat} \cup [found : {TRUE}, n : 0..MaxHistory]

\* getLastMessages without the slice: the whole stored conversation.
getAllMessages(chatMessages, count) == chatMessages

\* chatSchema.methods.getLastMessages: this.messages.slice(-count)
getLastMessages(chatMessages, count) ==
    SubSeq(chatMessages, Max(Len(chatMessages) - count + 1, 1), Len(chatMessages))

\* The state of the turn variables while no turn is modelled.
AgentIdle ==
    /\ pc = "idle"
    /\ streaming = FALSE
    /\ sessionId = FALSE
    /\ firstReturned = FALSE
    /\ firstResponse = NoResponse
    /\ toolIndex = 0
    /\ toolResults = <<>>
    /\ finalResponse = "default"
    /\ modelCalls = 0
    /\ failedModelCalls = 0
    /\ dispatchRounds = 0
    /\ secondHasToolCalls = FALSE
    /\ result = NoResult
    /\ chat = NoChat
    /\ messages = <<>>
    /\ sent = <<>>
    /\ executions = <<>>
    /\ storeFailures = 0
    /\ utteranceStored = FALSE

\* The state of the engine variables while no engine call is modelled.
EngineIdle ==
    /\ windowStart = 0
    /\ windowEnd = 0
    /\ minDuration = 0
    /\ busy = <<>>
    /\ callerBusy = <<>>
    /\ freeSlots = <<>>
    /\ firstSlots = <<>>
    /\ calls = 0
    /\ outcome = "none"

Users == {"A", "B"}
Requests == 1..MaxRequests

\* The singleton before any request uses it.
CredentialIdle ==
    /\ requestUser = [r \in Requests |-> "A"]
    /\ requestOp = [r \in Requests |-> "getFreeSlots"]
    /\ requestPc = [r \in Requests |-> "idle"]
    /\ oauthCredentials = "none"
    /\ apiCalls = <<>>

\* eventSchema.pre('save'): const reminderMinutes = 30
ReminderMinutes == 30

EventIds == 1..MaxEvents
StartTimes == {ReminderMinutes * k : k \in 1..MaxStart}

\* A slot of the collection holding no document.
NoEvent == [exists |-> FALSE, userId |-> "none", googleEventId |-> FALSE,
            status |-> "none", startTime |-> 0, reminderTime |-> 0,
            reminderSent |-> FALSE]

\* No operation performed yet.
NoOp == [kind |-> "none", userId |-> "none", eventId |-> 0, failed |-> "none",
         result |-> "none", calls |-> {}, calendarCreated |-> FALSE,
         localSaved |-> FALSE]

\* The collection while no operation on it is modelled.
EventIdle ==
    /\ events = [e \in EventIds |-> NoEvent]
    /\ eventsBefore = events
    /\ lastOp = NoOp

\* The reminder service as constructed, with no event to remind of.
ReminderIdle ==
    /\ now = 0
    /\ doc = [status |-> "none", reminderTime |-> 0, startTime |-> 0,
              reminderSent |-> FALSE]
    /\ isRunning = FALSE
    /\ reminderJob = "none"
    /\ jobs = 0
    /\ cronJobs = <<>>
    /\ sweepDue = FALSE
    /\ dueJobs = {}
    /\ tasks = <<>>
    /\ lastCall = "none"
    /\ stoppedSince = FALSE

ServicesIdle == CredentialIdle /\ EventIdle /\ ReminderIdle

(***************************************************************************)
(* Specification of the availability engine: a caller holding one window,  *)
(* one duration and one busy array calls calculateFreeSlots repeatedly.    *)
(***************************************************************************)
EngineInit ==
    /\ windowStart \in Times
    /\ windowEnd \in Times
    /\ minDuration \in Durations
    /\ busy \in BusyLists
    /\ callerBusy = busy
    /\ freeSlots = <<>>
    /\ firstSlots = <<>>
    /\ calls = 0
    /\ outcome = "none"
    /\ AgentIdle
    /\ ServicesIdle

CalculateFreeSlots ==
    /\ calls < MaxCalls
    /\ LET r == calculateFreeSlots(windowStart, windowEnd, busy, minDuration)
       IN  /\ busy' = r.busyTimes
           /\ freeSlots' = r.freeSlots
           /\ firstSlots' = IF calls = 0 THEN r.freeSlots ELSE firstSlots
           /\ outcome' = IF r.threw THEN "threw" ELSE "returned"
    /\ calls' = calls + 1
    /\ UNCHANGED <<windowStart, windowEnd, minDuration, callerBusy>>
    /\ UNCHANGED outsideEngine

EngineNext == CalculateFreeSlots

EngineSpec == EngineInit /\ [][EngineNext]_vars

(***************************************************************************)
(* ASHAgent.processRequest: one turn.  Each action is the code from one    *)
(* await to the next; an awaited collaborator call either resolves or      *)
(* rejects, and a rejection inside the try block enters the catch block.   *)
(***************************************************************************)
AgentInit ==
    /\ EngineIdle
    /\ ServicesIdle
    /\ pc = "request"
    /\ streaming \in BOOLEAN
    /\ sessionId \in BOOLEAN
    /\ chat \in (IF sessionId THEN Chats ELSE {NoChat})
    /\ firstReturned = FALSE
    /\ firstResponse = NoResponse
    /\ toolIndex = 0
    /\ toolResults = <<>>
    /\ finalResponse = "default"
    /\ modelCalls = 0
    /\ failedModelCalls = 0
    /\ dispatchRounds = 0
    /\ secondHasToolCalls = FALSE
    /\ result = NoResult
    /\ messages = <<>>
    /\ sent = <<>>
    /\ executions = <<>>
    /\ storeFailures = 0
    /\ utteranceStored = FALSE

\* A caller that hands the input to processRequest without touching the
\* chat store.
CallProcessRequest ==
    /\ pc = "request"
    /\ pc' = "logInput"
    /\ UNCHANGED <<streaming, sessionId, firstReturned, firstResponse, toolIndex,
                   toolResults, finalResponse, modelCalls, failedModelCalls,
                   dispatchRounds, secondHasToolCalls, result, chat, messages,
                   sent, executions, storeFailures, utteranceStored>>
    /\ UNCHANGED outsideAgent

\* POST /voice/process up to its call of processRequest: get or create the
\* chat session, chat.addMessage('user', inputText), log, then the call with
\* options.sessionId.  (A store call that rejects here ends the request
\* before any turn is started.)
VoiceProcess ==
    /\ pc = "request"
    /\ sessionId
    /\ chat.n < MaxHistory
    /\ chat' = [found |-> TRUE, n |-> chat.n + 1]
    /\ utteranceStored' = TRUE
    /\ pc' = "logInput"
    /\ UNCHANGED <<streaming, sessionId, firstReturned, firstResponse, toolIndex,
                   toolResults, finalResponse, modelCalls, failedModelCalls,
                   dispatchRounds, secondHasToolCalls, result, messages,
                   sent, executions, storeFailures>>
    /\ UNCHANGED outsideAgent

\* await Log.logInteraction({... 'voice_input' / 'text_input' ...}), then
\* const messages = [system prompt, user input]
LogInput ==
    /\ pc = "logInput"
    /\ \/ /\ pc' = IF sessionId THEN "findSession" ELSE "firstCall"
          /\ messages' = <<Message("system", 0, <<>>), Message("user", 0, <<>>)>>
          /\ UNCHANGED storeFailures
       \/ /\ pc' = "catch"
          /\ storeFailures' = storeFailures + 1
          /\ UNCHANGED messages
    /\ UNCHANGED <<streaming, sessionId, firstReturned, firstResponse, toolIndex,
                   toolResults, finalResponse, modelCalls, failedModelCalls,
                   dispatchRounds, secondHasToolCalls, result, chat, sent,
                   executions>>
    /\ UNCHANGED <<utteranceStored, outsideAgent>>

\* messages.splice(1, 0, ...recentMessages): insert after the system prompt.
SpliceContext(msgs, recentMessages) ==
    <<msgs[1]>> \o recentMessages \o SubSeq(msgs, 2, Len(msgs))

\* await Chat.findBySession(sessionId), then the recent context is spliced
\* in when the session exists and holds more than one message.
FindSession ==
    /\ pc = "findSession"
    /\ \/ /\ pc' = "firstCall"
          /\ messages' =
                IF chat.found /\ chat.n > 1
                THEN SpliceContext(messages,
                        getLastMessages(ChatMessages(chat.n), ContextMessages))
                ELSE messages
          /\ UNCHANGED storeFailures
       \/ /\ pc' = "catch"
          /\ storeFailures' = storeFailures + 1
          /\ UNCHANGED messages
    /\ UNCHANGED <<streaming, sessionId, firstReturned, firstResponse, toolIndex,
                   toolResults, finalResponse, modelCalls, failedModelCalls,
                   dispatchRounds, secondHasToolCalls, result, chat, sent,
                   executions>>
    /\ UNCHANGED <<utteranceStored, outsideAgent>>

\* The result entry executeTools pushes for one tool call:
\*   "success"  a handler's {success: true, ...}
\*   "failure"  a handler's {success: false, error: message}
\*   "error"    {error: message}: the default case of the switch, or the
\*              catch block of the loop body (JSON.parse threw)
ToolOutcomes(toolCall) ==
    IF ~toolCall.argsOk THEN {"error"}
    ELSE IF toolCall.name \in ToolNames THEN {"success", "failure"}
    ELSE {"error"}

\* A default case that falls through to a handler: every parsed call runs one.
HandlerInvokedForAnyName(toolCall) == toolCall.argsOk

\* A handler of the switch is invoked (and with it its collaborators) when
\* the arguments parsed and the name is one of the cases.
HandlerInvoked(toolCall) == toolCall.argsOk /\ toolCall.name \in ToolNames

\* The streaming branch handling tool calls like the regular branch.
FirstModelCallStreamingDispatches ==
    /\ pc = "firstCall"
    /\ modelCalls' = modelCalls + 1
    /\ sent' = Append(sent, messages)
    /\ \/ /\ failedModelCalls' = failedModelCalls + 1
          /\ pc' = "catch"
          /\ UNCHANGED <<firstReturned, firstResponse, finalResponse,
                         dispatchRounds, toolIndex>>
       \/ \E r \in Responses :
            /\ firstReturned' = TRUE
            /\ firstResponse' = r
            /\ UNCHANGED failedModelCalls
            /\ finalResponse' = IF streaming THEN "streamed"
                                ELSE IF r.content THEN "first" ELSE finalResponse
            /\ IF r.hasToolCalls
               THEN /\ dispatchRounds' = dispatchRounds + 1
                    /\ toolIndex' = 1
                    /\ pc' = IF r.toolCalls = <<>>
                             THEN "finalCall" ELSE "executeTools"
               ELSE /\ pc' = "logResponse"
                    /\ UNCHANGED <<dispatchRounds, toolIndex>>
    /\ UNCHANGED <<streaming, sessionId, toolResults, secondHasToolCalls, result,
                   chat, messages, executions, storeFailures>>
    /\ UNCHANGED <<utteranceStored, outsideAgent>>

\* The first chat.completions.create of the turn and the code up to the next
\* await.  Streaming mode consumes the stream and reads delta.content only.
FirstModelCall ==
    /\ pc = "firstCall"
    /\ modelCalls' = modelCalls + 1
    /\ sent' = Append(sent, messages)
    /\ \/ /\ failedModelCalls' = failedModelCalls + 1
          /\ pc' = "catch"
          /\ UNCHANGED <<firstReturned, firstResponse, finalResponse,
                         dispatchRounds, toolIndex>>
       \/ \E r \in Responses :
            /\ firstReturned' = TRUE
            /\ firstResponse' = r
            /\ UNCHANGED failedModelCalls
            /\ IF streaming
               THEN /\ finalResponse' = "streamed"
                    /\ pc' = "logResponse"
                    /\ UNCHANGED <<dispatchRounds, toolIndex>>
               ELSE /\ finalResponse' = IF r.content THEN "first" ELSE finalResponse
                    /\ IF r.hasToolCalls
                       THEN /\ dispatchRounds' = dispatchRounds + 1
                            /\ toolIndex' = 1
                            /\ pc' = IF r.toolCalls = <<>>
                                     THEN "finalCall" ELSE "executeTools"
                       ELSE /\ pc' = "logResponse"
                            /\ UNCHANGED <<dispatchRounds, toolIndex>>
    /\ UNCHANGED <<streaming, sessionId, toolResults, secondHasToolCalls, result,
                   chat, messages, executions, storeFailures>>
    /\ UNCHANGED <<utteranceStored, outsideAgent>>

\* results.unshift(...): newest result first.
PushResultFront(results, entry) == <<entry>> \o results

\* results.push({tool_call_id, result})
PushResult(results, entry) == Append(results, entry)

\* `return results` inside the loop body: the loop ends after one tool call.
AfterToolReturnEarly(toolCalls, i, kind) == "finalCall"

\* A loop that is not left after its last tool call.
AfterToolNeverLeavesLoop(toolCalls, i, kind) == "executeTools"

\* No try/catch around the loop body: an error result aborts the turn.
AfterToolThrowOnError(toolCalls, i, kind) ==
    IF kind \in {"error", "failure"} THEN "catch"
    ELSE IF i = Len(toolCalls) THEN "finalCall" ELSE "executeTools"

\* Where the turn continues after the loop iteration of tool call i with
\* result kind: the iteration catches everything, so with the next tool
\* call, or after the last one with the follow-up model call.
AfterTool(toolCalls, i, kind) ==
    IF i = Len(toolCalls) THEN "finalCall" ELSE "executeTools"

\* One iteration of the for-loop of executeTools: parse the arguments, run
\* the handler of the switch, push the result entry.
ExecuteTool ==
    /\ pc = "executeTools"
    /\ toolIndex <= Len(firstResponse.toolCalls)
    /\ \E kind \in ToolOutcomes(firstResponse.toolCalls[toolIndex]) :
          /\ toolResults' = PushResult(toolResults,
                                [tool_call_id |-> toolIndex, result |-> kind])
          /\ executions' = Append(executions,
                                [call |-> toolIndex,
                                 handler |-> HandlerInvoked(firstResponse.toolCalls[toolIndex]),
                                 outcome |-> kind])
          /\ pc' = AfterTool(firstResponse.toolCalls, toolIndex, kind)
    /\ toolIndex' = toolIndex + 1
    /\ UNCHANGED <<streaming, sessionId, firstReturned, firstResponse,
                   finalResponse, modelCalls, failedModelCalls, dispatchRounds,
                   secondHasToolCalls, result, chat, messages, sent,
                   storeFailures>>
    /\ UNCHANGED <<utteranceStored, outsideAgent>>

\* messages.push(message); messages.push({role: "tool", content: results})
WithToolResults(msgs, results) ==
    msgs \o <<Message("assistant", 0, <<>>), Message("tool", 0, results)>>

\* A loop `while (message.tool_calls)` around dispatch and follow-up call.
FinalModelCallLooping ==
    /\ pc = "finalCall"
    /\ modelCalls' = modelCalls + 1
    /\ messages' = WithToolResults(messages, toolResults)
    /\ sent' = Append(sent, messages')
    /\ \/ /\ failedModelCalls' = failedModelCalls + 1
          /\ pc' = "catch"
          /\ UNCHANGED <<finalResponse, secondHasToolCalls, dispatchRounds,
                         toolIndex>>
       \/ \E content \in BOOLEAN, again \in BOOLEAN :
            /\ finalResponse' = IF content THEN "final" ELSE finalResponse
            /\ secondHasToolCalls' = again
            /\ IF again
               THEN /\ dispatchRounds' = dispatchRounds + 1
                    /\ toolIndex' = 1
                    /\ pc' = IF firstResponse.toolCalls = <<>>
                             THEN "finalCall" ELSE "executeTools"
               ELSE /\ pc' = "logResponse"
                    /\ UNCHANGED <<dispatchRounds, toolIndex>>
            /\ UNCHANGED failedModelCalls
    /\ UNCHANGED <<streaming, sessionId, firstReturned, firstResponse,
                   toolResults, result, chat, executions, storeFailures>>
    /\ UNCHANGED <<utteranceStored, outsideAgent>>

\* The follow-up chat.completions.create with the tool results appended;
\* tool_calls of its response are not read.
FinalModelCall ==
    /\ pc = "finalCall"
    /\ modelCalls' = modelCalls + 1
    /\ messages' = WithToolResults(messages, toolResults)
    /\ sent' = Append(sent, messages')
    /\ \/ /\ failedModelCalls' = failedModelCalls + 1
          /\ pc' = "catch"
          /\ UNCHANGED <<finalResponse, secondHasToolCalls>>
       \/ \E content \in BOOLEAN, again \in BOOLEAN :
            /\ finalResponse' = IF content THEN "final" ELSE finalResponse
            /\ secondHasToolCalls' = again
            /\ pc' = "logResponse"
            /\ UNCHANGED failedModelCalls
    /\ UNCHANGED <<streaming, sessionId, firstReturned, firstResponse, toolIndex,
                   toolResults, dispatchRounds, result, chat, executions,
                   storeFailures>>
    /\ UNCHANGED <<utteranceStored, outsideAgent>>

\* A return value that also carries the tool results.
TurnResultWithResults(reply, results) ==
    [reply |-> reply, success |-> TRUE, processingTime |-> "elapsed",
     toolResults |-> results]

\* The object of the return statement after the try block's work:
\* {reply: finalResponse, success: true, processingTime}
TurnResult(reply, results) ==
    [reply |-> reply, success |-> TRUE, processingTime |-> "elapsed"]

\* await Log.logInteraction({... 'voice_response' / 'text_response' ...}),
\* then return {reply: finalResponse, success: true, ...}
LogResponse ==
    /\ pc = "logResponse"
    /\ \/ /\ pc' = "done"
          /\ result' = TurnResult(finalResponse, toolResults)
          /\ UNCHANGED storeFailures
       \/ /\ pc' = "catch"
          /\ storeFailures' = storeFailures + 1
          /\ UNCHANGED result
    /\ UNCHANGED <<streaming, sessionId, firstReturned, firstResponse, toolIndex,
                   toolResults, finalResponse, modelCalls, failedModelCalls,
                   dispatchRounds, secondHasToolCalls, chat, messages, sent,
                   executions>>
    /\ UNCHANGED <<utteranceStored, outsideAgent>>

\* The catch block: await Log.logInteraction({... 'error' ...}), then return
\* the apology with success: false.  A rejection here is outside any try.
CatchBlock ==
    /\ pc = "catch"
    /\ \/ /\ pc' = "done"
          /\ result' = [reply |-> "apology", success |-> FALSE,
                        error |-> "message", processingTime |-> "elapsed"]
          /\ UNCHANGED storeFailures
       \/ /\ pc' = "rejected"
          /\ storeFailures' = storeFailures + 1
          /\ UNCHANGED result
    /\ UNCHANGED <<streaming, sessionId, firstReturned, firstResponse, toolIndex,
                   toolResults, finalResponse, modelCalls, failedModelCalls,
                   dispatchRounds, secondHasToolCalls, chat, messages, sent,
                   executions>>
    /\ UNCHANGED <<utteranceStored, outsideAgent>>

AgentNext ==
    \/ CallProcessRequest
    \/ VoiceProcess
    \/ LogInput
    \/ FindSession
    \/ FirstModelCall
    \/ ExecuteTool
    \/ FinalModelCall
    \/ LogResponse
    \/ CatchBlock

AgentSpec == AgentInit /\ [][AgentNext]_vars

\* The turn under the assumption that every awaited collaborator call
\* eventually resolves or rejects: the code after an await is then run.
AgentLiveSpec == AgentInit /\ [][AgentNext]_vars /\ WF_vars(AgentNext)

(***************************************************************************)
(* GoogleAPIService is exported as one object (module.exports = new ...),  *)
(* so every request of the process uses the same this.oauth2Client.  Each  *)
(* request is getFreeSlots or createEvent of google.js for one user; an    *)
(* action is the code of one request from one await to the next, and the   *)
(* continuations of different requests interleave.                         *)
(***************************************************************************)
CredentialInit ==
    /\ EngineIdle
    /\ AgentIdle
    /\ requestUser \in [Requests -> Users]
    /\ requestOp \in [Requests -> {"getFreeSlots", "createEvent"}]
    /\ requestPc = [r \in Requests |-> "findUser"]
    /\ oauthCredentials = "none"
    /\ apiCalls = <<>>
    /\ EventIdle
    /\ ReminderIdle

\* setUserCredentials after `await User.findOne({ userId })`: throws when the
\* user is missing or has no valid tokens, else
\* this.oauth2Client.setCredentials(the user's tokens) and return.
SetUserCredentials(r) ==
    /\ requestPc[r] = "findUser"
    /\ \/ /\ oauthCredentials' = requestUser[r]
          /\ requestPc' = [requestPc EXCEPT ![r] = "credentialsSet"]
       \/ /\ requestPc' = [requestPc EXCEPT ![r] = "failed"]
          /\ UNCHANGED oauthCredentials
    /\ UNCHANGED <<requestUser, requestOp, apiCalls>>
    /\ UNCHANGED <<engineVars, agentVars, eventVars, reminderVars>>

\* The API method the request goes on to call.
CalendarMethod(op) ==
    IF op = "getFreeSlots" THEN "freebusy.query" ELSE "events.insert"

\* The caller after `await this.setUserCredentials(userId)`:
\* this.calendar.freebusy.query / events.insert({auth: this.oauth2Client, ...}),
\* issued with whatever credentials the shared client holds now.
CalendarCall(r) ==
    /\ requestPc[r] = "credentialsSet"
    /\ apiCalls' = Append(apiCalls, [request |-> r,
                                     userId |-> requestUser[r],
                                     method |-> CalendarMethod(requestOp[r]),
                                     credentials |-> oauthCredentials])
    /\ requestPc' = [requestPc EXCEPT ![r] = "awaitingCalendar"]
    /\ UNCHANGED <<requestUser, requestOp, oauthCredentials>>
    /\ UNCHANGED <<engineVars, agentVars, eventVars, reminderVars>>

\* The calendar API answers: return the data, or the catch block rethrows.
CalendarReturns(r) ==
    /\ requestPc[r] = "awaitingCalendar"
    /\ \E end \in {"returned", "failed"} :
          requestPc' = [requestPc EXCEPT ![r] = end]
    /\ UNCHANGED <<requestUser, requestOp, oauthCredentials, apiCalls>>
    /\ UNCHANGED <<engineVars, agentVars, eventVars, reminderVars>>

CredentialNext ==
    \E r \in Requests :
        \/ SetUserCredentials(r)
        \/ CalendarCall(r)
        \/ CalendarReturns(r)

CredentialSpec == CredentialInit /\ [][CredentialNext]_vars

(***************************************************************************)
(* The Event collection under one operation: a tool handler of ASHAgent or *)
(* a route of routes/events.js, run from its first line to its return.     *)
(* Times are minutes.  failAt is the collaborator step that rejects, if it *)
(* is reached: "find" (Event.findById / findOne), "google" (googleService),*)
(* "save" (event.save) or "log" (Log.logInteraction).  The result is       *)
(* "success", "notFound" ({success: false, error: 'Event not found'} or    *)
(* status 404), "badRequest" (status 400) or "error" (another error).      *)
(***************************************************************************)
StoredEvent(userId, googleEventId, status, startTime, reminderTime, reminderSent) ==
    [exists |-> TRUE, userId |-> userId, googleEventId |-> googleEventId,
     status |-> status, startTime |-> startTime, reminderTime |-> reminderTime,
     reminderSent |-> reminderSent]

\* eventSchema.pre('save'): reminderTime = startTime - 30 minutes when the
\* document has none.
preSave(event, hasReminderTime) ==
    IF hasReminderTime THEN event
    ELSE [event EXCEPT !.reminderTime = event.startTime - ReminderMinutes]

\* The documents the collection holds before the operation.
InitialEvents ==
    {NoEvent} \cup
    {preSave(StoredEvent(u, g, "scheduled", ReminderMinutes, 0, reminded), FALSE) :
        u \in Users, g \in BOOLEAN, reminded \in BOOLEAN}

\* The fields of the update: with or without a startTime.
UpdateData == {[hasStart |-> FALSE, startTime |-> 0]}
              \cup [hasStart : {TRUE}, startTime : StartTimes]

\* minutesBefore of setReminder (default 30).
MinutesBefore == {0, ReminderMinutes}

FailPoints == {"none", "find", "google", "save", "log"}

EventInit ==
    /\ EngineIdle
    /\ AgentIdle
    /\ CredentialIdle
    /\ ReminderIdle
    /\ events \in [EventIds -> InitialEvents]
    /\ eventsBefore = events
    /\ lastOp = NoOp

\* The record of a finished operation.
Operation(kind, userId, eventId, failed, outcomeOfOp, collaboratorCalls) ==
    [kind |-> kind, userId |-> userId, eventId |-> eventId, failed |-> failed,
     result |-> outcomeOfOp, calls |-> collaboratorCalls, calendarCreated |-> FALSE,
     localSaved |-> FALSE]

\* A check that only tests that the document exists.
OwnsWithoutUserTest(event, userId) == event.exists

\* The negation of `!event || event.userId !== userId`; for the routes,
\* Event.findOne({ _id: eventId, userId }) returned a document.
Owns(event, userId) == event.exists /\ event.userId = userId

\* Object.assign(event, updateData); event.status = 'rescheduled'
AssignUpdate(event, updateData) ==
    [event EXCEPT !.startTime = IF updateData.hasStart THEN updateData.startTime
                                ELSE event.startTime,
                  !.status = "rescheduled"]

\* eventSchema.methods.reschedule
reschedule(event, newStartTime) ==
    [event EXCEPT !.startTime = newStartTime,
                  !.status = "rescheduled",
                  !.reminderSent = FALSE,
                  !.reminderTime = newStartTime - ReminderMinutes]

\* How an operation ends once its document is found and owned: work is the
\* rest of the handler as a record
\*   [google: the googleService method called (or "none"),
\*    googleThrows: that call always throws,
\*    googleCaught: a rejection of that call is caught and ignored,
\*    saved: the document event.save() writes (NoEvent: no save),
\*    logs: Log.logInteraction is awaited after the save].
Finish(kind, userId, eventId, failAt, work) ==
    LET called == IF work.google = "none" THEN {} ELSE {work.google}
        googleFails == work.google # "none" /\ (work.googleThrows \/ failAt = "google")
    IN  IF googleFails /\ ~work.googleCaught
        THEN /\ lastOp' = Operation(kind, userId, eventId, "google", "error", called)
             /\ UNCHANGED events
        ELSE IF work.saved.exists /\ failAt = "save"
        THEN /\ lastOp' = Operation(kind, userId, eventId, "save", "error", called)
             /\ UNCHANGED events
        ELSE /\ events' = IF work.saved.exists
                          THEN [events EXCEPT ![eventId] = preSave(work.saved, TRUE)]
                          ELSE events
             /\ lastOp' = IF work.logs /\ failAt = "log"
                          THEN Operation(kind, userId, eventId, "log", "error", called)
                          ELSE Operation(kind, userId, eventId, "none", "success", called)

\* The common start of the four event tools and of the routes: look the
\* document up, return 'Event not found' unless it exists and is the
\* user's own, else go on with the handler's work.
OnOwnEvent(kind, userId, eventId, failAt, work) ==
    /\ lastOp = NoOp
    /\ eventsBefore' = events
    /\ IF failAt = "find"
       THEN /\ lastOp' = Operation(kind, userId, eventId, "find", "error", {})
            /\ UNCHANGED events
       ELSE IF ~Owns(events[eventId], userId)
       THEN /\ lastOp' = Operation(kind, userId, eventId, "none", "notFound", {})
            /\ UNCHANGED events
       ELSE Finish(kind, userId, eventId, failAt, work)
    /\ UNCHANGED <<engineVars, agentVars, credentialVars, reminderVars>>

\* ASHAgent.updateEvent: googleService.updateEvent gets the parsed JSON
\* arguments, whose startTime (a string, or missing) has no toISOString, so
\* that call throws; without a googleEventId the document is updated.
UpdateEventTool ==
    \E userId \in Users, eventId \in EventIds, updateData \in UpdateData,
       failAt \in FailPoints :
        OnOwnEvent("updateEvent", userId, eventId, failAt,
            [google |-> IF events[eventId].googleEventId
                        THEN "googleService.updateEvent" ELSE "none",
             googleThrows |-> TRUE,
             googleCaught |-> FALSE,
             saved |-> AssignUpdate(events[eventId], updateData),
             logs |-> TRUE])

\* ASHAgent.deleteEvent
DeleteEventTool ==
    \E userId \in Users, eventId \in EventIds, failAt \in FailPoints :
        OnOwnEvent("deleteEvent", userId, eventId, failAt,
            [google |-> IF events[eventId].googleEventId
                        THEN "googleService.deleteEvent" ELSE "none",
             googleThrows |-> FALSE,
             googleCaught |-> FALSE,
             saved |-> [events[eventId] EXCEPT !.status = "cancelled"],
             logs |-> TRUE])

\* ASHAgent.sendInvite
SendInviteTool ==
    \E userId \in Users, eventId \in EventIds, failAt \in FailPoints :
        OnOwnEvent("sendInvite", userId, eventId, failAt,
            [google |-> "googleService.sendInvite",
             googleThrows |-> FALSE,
             googleCaught |-> FALSE,
             saved |-> NoEvent,
             logs |-> FALSE])

\* ASHAgent.setReminder
SetReminderTool ==
    \E userId \in Users, eventId \in EventIds, minutesBefore \in MinutesBefore,
       failAt \in FailPoints :
        OnOwnEvent("setReminder", userId, eventId, failAt,
            [google |-> "none",
             googleThrows |-> FALSE,
             googleCaught |-> FALSE,
             saved |-> [events[eventId] EXCEPT
                            !.reminderTime = events[eventId].startTime - minutesBefore],
             logs |-> FALSE])

\* PUT /events/:eventId: the body's startTime is a string as well, but a
\* rejection of googleService.updateEvent is caught and the local update
\* is made all the same.
PutEvent ==
    \E userId \in Users, eventId \in EventIds, updateData \in UpdateData,
       failAt \in FailPoints :
        OnOwnEvent("PUT /events/:eventId", userId, eventId, failAt,
            [google |-> IF events[eventId].googleEventId
                        THEN "googleService.updateEvent" ELSE "none",
             googleThrows |-> TRUE,
             googleCaught |-> TRUE,
             saved |-> AssignUpdate(events[eventId], updateData),
             logs |-> TRUE])

\* POST /events/:eventId/reschedule: 400 without startTime or endTime; the
\* calendar update gets Date objects and its rejection is caught; then
\* event.reschedule(newStartTime, newEndTime).
RescheduleEvent ==
    \E userId \in Users, eventId \in EventIds, updateData \in UpdateData,
       failAt \in FailPoints :
        IF ~updateData.hasStart
        THEN /\ lastOp = NoOp
             /\ eventsBefore' = events
             /\ lastOp' = Operation("POST /events/:eventId/reschedule", userId,
                                    eventId, "none", "badRequest", {})
             /\ UNCHANGED events
             /\ UNCHANGED <<engineVars, agentVars, credentialVars, reminderVars>>
        ELSE OnOwnEvent("POST /events/:eventId/reschedule", userId, eventId, failAt,
                [google |-> IF events[eventId].googleEventId
                            THEN "googleService.updateEvent" ELSE "none",
                 googleThrows |-> FALSE,
                 googleCaught |-> TRUE,
                 saved |-> reschedule(events[eventId], updateData.startTime),
                 logs |-> FALSE])

\* ASHAgent.createEvent: googleService.createEvent inserts the event into
\* the calendar, then `new Event({...}).save()`, then Log.logInteraction;
\* whatever rejects, the catch block returns {success: false, error}.
CreateEventTool ==
    \E userId \in Users, eventId \in EventIds, startTime \in StartTimes,
       failAt \in FailPoints \ {"find"} :
        /\ lastOp = NoOp
        /\ ~events[eventId].exists
        /\ eventsBefore' = events
        /\ LET calendarCreated == failAt # "google"
               localSaved == failAt \notin {"google", "save"}
               done == Operation("createEvent", userId, eventId, failAt,
                                 IF failAt = "none" THEN "success" ELSE "error",
                                 {"googleService.createEvent"})
           IN  /\ lastOp' = [done EXCEPT !.calendarCreated = calendarCreated,
                                        !.localSaved = localSaved]
               /\ events' = IF localSaved
                            THEN [events EXCEPT ![eventId] =
                                    preSave(StoredEvent(userId, TRUE, "scheduled",
                                                        startTime, 0, FALSE), FALSE)]
                            ELSE events
        /\ UNCHANGED <<engineVars, agentVars, credentialVars, reminderVars>>

EventNext ==
    \/ UpdateEventTool
    \/ DeleteEventTool
    \/ SendInviteTool
    \/ SetReminderTool
    \/ PutEvent
    \/ RescheduleEvent
    \/ CreateEventTool

EventSpec == EventInit /\ [][EventNext]_vars

(***************************************************************************)
(* ReminderService (one object per process), the cron jobs it creates and  *)
(* one event.  node-cron fires every scheduled job once per minute,        *)
(* whether or not the callback of an earlier firing has finished; each     *)
(* firing is a task that runs from one await to the next.                  *)
(***************************************************************************)
Clock == 0..MaxNow

\* The filter of eventSchema.statics.findNeedingReminders at time t.
Eligible(d, t) ==
    /\ d.reminderTime <= t
    /\ ~d.reminderSent
    /\ d.status # "cancelled"
    /\ d.startTime >= t

\* One firing of a cron callback: what fired it ("sweep": the per-minute
\* job of start(), "job": a job of scheduleReminder, with its id), where it
\* is, whether the event was eligible when sendReminder was called for it,
\* whether markReminderSent was done, and whether it fired after stop().
Task(trigger, job, at, eligible, afterStop) ==
    [trigger |-> trigger, job |-> job, pc |-> at, eligible |-> eligible,
     marked |-> FALSE, afterStop |-> afterStop]

ReminderInit ==
    /\ EngineIdle
    /\ AgentIdle
    /\ CredentialIdle
    /\ EventIdle
    /\ now = 0
    /\ doc \in {[status |-> "scheduled", reminderTime |-> rt, startTime |-> st,
                 reminderSent |-> FALSE] : rt \in Clock, st \in Clock}
    /\ doc.reminderTime <= doc.startTime
    /\ isRunning = FALSE
    /\ reminderJob = "none"
    /\ jobs = 0
    /\ cronJobs = <<>>
    /\ sweepDue = FALSE
    /\ dueJobs = {}
    /\ tasks = <<>>
    /\ lastCall = "none"
    /\ stoppedSince = FALSE

\* job.stop(); job.destroy() on the job stored under the event's key.
StopStoredJob(scheduled) ==
    IF jobs = 0 THEN scheduled ELSE [scheduled EXCEPT ![jobs] = FALSE]

\* start()
Start ==
    /\ lastCall' = "start"
    /\ stoppedSince' = FALSE
    /\ IF isRunning
       THEN UNCHANGED <<reminderJob, isRunning>>
       ELSE /\ reminderJob' = "active"
            /\ isRunning' = TRUE
    /\ UNCHANGED <<now, doc, jobs, cronJobs, sweepDue, dueJobs, tasks>>
    /\ UNCHANGED <<engineVars, agentVars, credentialVars, eventVars>>

\* stop()
Stop ==
    /\ lastCall' = "stop"
    /\ stoppedSince' = TRUE
    /\ IF ~isRunning
       THEN UNCHANGED <<reminderJob, isRunning, jobs, cronJobs, sweepDue, dueJobs>>
       ELSE /\ reminderJob' = IF reminderJob = "none" THEN "none" ELSE "destroyed"
            /\ sweepDue' = FALSE
            /\ cronJobs' = StopStoredJob(cronJobs)
            /\ dueJobs' = dueJobs \ {jobs}
            /\ jobs' = 0
            /\ isRunning' = FALSE
    /\ UNCHANGED <<now, doc, tasks>>
    /\ UNCHANGED <<engineVars, agentVars, credentialVars, eventVars>>

\* scheduleReminder(event) with the event as stored: nothing when the
\* reminder was sent or its time is not in the future; else the job under
\* the event's key is stopped, a cron job '* * * * *' is created
\* (scheduled: true) and stored under the key.
ScheduleReminder ==
    /\ lastCall' = "scheduleReminder"
    /\ IF doc.reminderSent \/ doc.reminderTime <= now
       THEN UNCHANGED <<jobs, cronJobs, dueJobs>>
       ELSE /\ Len(cronJobs) < MaxJobs
            /\ cronJobs' = Append(StopStoredJob(cronJobs), TRUE)
            /\ jobs' = Len(cronJobs) + 1
            /\ dueJobs' = dueJobs \ {jobs}
    /\ UNCHANGED <<now, doc, isRunning, reminderJob, sweepDue, tasks, stoppedSince>>
    /\ UNCHANGED <<engineVars, agentVars, credentialVars, eventVars>>

\* cancelReminder(eventId)
CancelReminder ==
    /\ lastCall' = "cancelReminder"
    /\ cronJobs' = StopStoredJob(cronJobs)
    /\ dueJobs' = dueJobs \ {jobs}
    /\ jobs' = 0
    /\ UNCHANGED <<now, doc, isRunning, reminderJob, sweepDue, tasks, stoppedSince>>
    /\ UNCHANGED <<engineVars, agentVars, credentialVars, eventVars>>

\* A minute passes: every job still scheduled is owed one firing.
MinutePasses ==
    /\ now < MaxNow
    /\ now' = now + 1
    /\ sweepDue' = (reminderJob = "active")
    /\ dueJobs' = {j \in 1..Len(cronJobs) : cronJobs[j]}
    /\ UNCHANGED <<doc, isRunning, reminderJob, jobs, cronJobs, tasks, lastCall,
                   stoppedSince>>
    /\ UNCHANGED <<engineVars, agentVars, credentialVars, eventVars>>

\* The sweep job fires: checkAndSendReminders up to
\* `await Event.findNeedingReminders()`.
SweepFires ==
    /\ sweepDue
    /\ Len(tasks) < MaxTasks
    /\ sweepDue' = FALSE
    /\ tasks' = Append(tasks, Task("sweep", 0, "find", FALSE, stoppedSince))
    /\ UNCHANGED <<now, doc, isRunning, reminderJob, jobs, cronJobs, dueJobs,
                   lastCall, stoppedSince>>
    /\ UNCHANGED <<engineVars, agentVars, credentialVars, eventVars>>

\* A job of scheduleReminder fires: `await this.sendReminder(event)` is
\* called at once, up to its `await User.findOne`.
JobFires(j) ==
    /\ j \in dueJobs
    /\ Len(tasks) < MaxTasks
    /\ dueJobs' = dueJobs \ {j}
    /\ tasks' = Append(tasks, Task("job", j, "findUser", Eligible(doc, now),
                                   stoppedSince))
    /\ UNCHANGED <<now, doc, isRunning, reminderJob, jobs, cronJobs, sweepDue,
                   lastCall, stoppedSince>>
    /\ UNCHANGED <<engineVars, agentVars, credentialVars, eventVars>>

\* The callback of a job of scheduleReminder after sendReminder returned:
\* this.jobs.delete(id) removes the entry of the key; no job is stopped.
AfterSendReminder(i, at) ==
    IF tasks[i].trigger = "job" /\ at \in {"skipped", "delivered", "failed"}
    THEN 0 ELSE jobs

\* checkAndSendReminders after the query resolved: nothing when the event
\* is not selected, else sendReminder(event) up to `await User.findOne`;
\* a rejected query is caught and logged.
FindNeedingReminders(i) ==
    /\ i <= Len(tasks)
    /\ tasks[i].pc = "find"
    /\ \E found \in BOOLEAN :
          tasks' = [tasks EXCEPT ![i].pc = IF ~found THEN "failed"
                                           ELSE IF Eligible(doc, now) THEN "findUser"
                                           ELSE "skipped",
                                 ![i].eligible = found /\ Eligible(doc, now)]
    /\ UNCHANGED <<now, doc, isRunning, reminderJob, jobs, cronJobs, sweepDue,
                   dueJobs, lastCall, stoppedSince>>
    /\ UNCHANGED <<engineVars, agentVars, credentialVars, eventVars>>

\* sendReminder after User.findOne: return when the user is missing or
\* inactive, else event.markReminderSent() (reminderSent = true; save);
\* a rejection goes to the catch block.
MarkReminderSent(i) ==
    /\ i <= Len(tasks)
    /\ tasks[i].pc = "findUser"
    /\ \E at \in {"marked", "skipped", "failed"} :
          /\ tasks' = [tasks EXCEPT ![i].pc = at, ![i].marked = (at = "marked")]
          /\ doc' = IF at = "marked" THEN [doc EXCEPT !.reminderSent = TRUE] ELSE doc
          /\ jobs' = AfterSendReminder(i, at)
    /\ UNCHANGED <<now, isRunning, reminderJob, cronJobs, sweepDue, dueJobs,
                   lastCall, stoppedSince>>
    /\ UNCHANGED <<engineVars, agentVars, credentialVars, eventVars>>

\* sendReminder after the save: Log.logInteraction('reminder_sent') and the
\* email (a failing email is caught); a rejected log write goes to the
\* catch block.
DeliverReminder(i) ==
    /\ i <= Len(tasks)
    /\ tasks[i].pc = "marked"
    /\ \E at \in {"delivered", "failed"} :
          /\ tasks' = [tasks EXCEPT ![i].pc = at]
          /\ jobs' = AfterSendReminder(i, at)
    /\ UNCHANGED <<now, doc, isRunning, reminderJob, cronJobs, sweepDue, dueJobs,
                   lastCall, stoppedSince>>
    /\ UNCHANGED <<engineVars, agentVars, credentialVars, eventVars>>

ReminderNext ==
    \/ Start
    \/ Stop
    \/ ScheduleReminder
    \/ CancelReminder
    \/ MinutePasses
    \/ SweepFires
    \/ \E j \in 1..MaxJobs : JobFires(j)
    \/ \E i \in 1..MaxTasks :
          \/ FindNeedingReminders(i)
          \/ MarkReminderSent(i)
          \/ DeliverReminder(i)

ReminderSpec == ReminderInit /\ [][ReminderNext]_vars

(***************************************************************************)
(* Properties of the availability engine (checked under EngineSpec).       *)
(***************************************************************************)
Returned == calls >= 1 /\ outcome = "returned"
ValidRange == windowStart < windowEnd /\ minDuration > 0
InsideWindow(list) ==
    \A i \in 1..Len(list) : windowStart <= list[i].start /\ list[i].end <= windowEnd
SlotSet(slots) == {slots[i] : i \in 1..Len(slots)}
ChronologicalSlots(slots) ==
    \A i \in 1..(Len(slots) - 1) : slots[i].end <= slots[i + 1].start
Overlap(a, b) == a.start < b.end /\ b.start < a.end

\* Reference definition, independent of the scan: minute t of the grid is
\* busy when some busy interval contains it.
Covered(list, t) == \E i \in 1..Len(list) : list[i].start <= t /\ t < list[i].end
MaximalGaps(startTime, endTime, list) ==
    {g \in [start : Times, end : Times] :
        /\ startTime <= g.start /\ g.start < g.end /\ g.end <= endTime
        /\ \A t \in Times : (g.start <= t /\ t < g.end) => ~Covered(list, t)
        /\ (g.start = startTime \/ Covered(list, g.start - Tick))
        /\ (g.end = endTime \/ Covered(list, g.end))}
LongGaps(startTime, endTime, list, duration) ==
    {g \in MaximalGaps(startTime, endTime, list) :
        g.end - g.start >= duration * MsPerMinute}

\* C1: for a valid window and duration and a busy list lying inside the
\* window (any order, overlapping, duplicate, nested), the call returns
\* exactly the maximal uncovered sub-ranges of the window of length
\* >= duration, in chronological order; busy [{10,20},{15,25}] in window
\* [0,30] with duration 5 gives [{0,10},{25,30}]; a covering list gives [].
C1_MaximalFreeSlots ==
    /\ (Returned /\ ValidRange /\ InsideWindow(callerBusy)) =>
          /\ SlotSet(freeSlots)
                = LongGaps(windowStart, windowEnd, callerBusy, minDuration)
          /\ ChronologicalSlots(freeSlots)
          /\ Len(freeSlots) = Cardinality(SlotSet(freeSlots))
    /\ calculateFreeSlots(0, 30 * MsPerMinute,
            <<[start |-> 10 * MsPerMinute, end |-> 20 * MsPerMinute],
              [start |-> 15 * MsPerMinute, end |-> 25 * MsPerMinute]>>, 5).freeSlots
          = <<[start |-> 0, end |-> 10 * MsPerMinute],
              [start |-> 25 * MsPerMinute, end |-> 30 * MsPerMinute]>>
    /\ calculateFreeSlots(0, 30 * MsPerMinute,
            <<[start |-> 0, end |-> 30 * MsPerMinute]>>, 5).freeSlots = <<>>

\* C1 witness: an out-of-order, nested pair inside the window, one slot found.
C1_Witness ==
    /\ Returned /\ ValidRange /\ InsideWindow(callerBusy)
    /\ Len(callerBusy) = 2
    /\ callerBusy[1].start > callerBusy[2].start
    /\ callerBusy[1].end < callerBusy[2].end
    /\ Len(freeSlots) = 1

\* C2: every returned slot is at least duration minutes long, i.e.
\* end - start >= duration * 60000 ms, whatever the window and busy list.
C2_NoUnderLengthSlot ==
    Returned =>
        \A i \in 1..Len(freeSlots) :
            freeSlots[i].end - freeSlots[i].start >= minDuration * MsPerMinute

\* C2 witness: a call that dropped a too-short gap in front of a busy
\* interval and still returned a slot.
C2_Witness ==
    /\ Returned /\ ValidRange
    /\ Len(freeSlots) >= 1
    /\ \E i \in 1..Len(busy) :
          /\ windowStart < busy[i].start
          /\ busy[i].start - windowStart < minDuration * MsPerMinute
          /\ ~Covered(busy, windowStart)

\* C3: the returned slots are pairwise disjoint, in strictly increasing
\* chronological order, and none overlaps an input busy interval.
C3_DisjointOrderedClearOfBusy ==
    Returned =>
        /\ ChronologicalSlots(freeSlots)
        /\ \A i, j \in 1..Len(freeSlots) :
              i # j => ~Overlap(freeSlots[i], freeSlots[j])
        /\ \A i \in 1..Len(freeSlots) : \A k \in 1..Len(callerBusy) :
              ~Overlap(freeSlots[i], callerBusy[k])

\* C3 witness: an out-of-order busy list with two slots returned.
C3_Witness ==
    /\ Returned /\ ValidRange
    /\ Len(callerBusy) = 2 /\ callerBusy[1].start > callerBusy[2].start
    /\ Len(freeSlots) = 2

\* C4 (as claimed): for a valid window every returned slot lies inside the
\* window, also when busy intervals lie outside it.
C4_SlotsClippedToWindow ==
    (Returned /\ ValidRange) =>
        \A i \in 1..Len(freeSlots) :
            /\ windowStart <= freeSlots[i].start
            /\ freeSlots[i].start < freeSlots[i].end
            /\ freeSlots[i].end <= windowEnd

\* C5: with an empty busy list and a valid window and duration the call
\* returns the single slot [windowStart, windowEnd) when the window is at
\* least duration long, and the empty list otherwise.
C5_EmptyBusyList ==
    (Returned /\ ValidRange /\ callerBusy = <<>>) =>
        freeSlots = IF windowEnd - windowStart >= minDuration * MsPerMinute
                    THEN <<[start |-> windowStart, end |-> windowEnd]>>
                    ELSE <<>>

\* C5 witness: an empty busy list and a window shorter than the duration.
C5_Witness ==
    /\ Returned /\ ValidRange /\ callerBusy = <<>>
    /\ windowEnd - windowStart < minDuration * MsPerMinute
    /\ freeSlots = <<>>

\* C6 (as claimed): a call with windowStart >= windowEnd or duration <= 0
\* fails with an error and never returns a list of slots.
C6_InvalidRangeRejected ==
    (calls >= 1 /\ ~ValidRange) => outcome = "threw"

\* C7 (as claimed): the call leaves the caller's busy list as it was, same
\* intervals in the same order.
C7_BusyListUntouched ==
    calls >= 1 => busy = callerBusy

\* C8: a second call with the same arguments, made on the very array object
\* the first call received, returns what the first call returned.
C8_SecondCallSameOutput ==
    calls >= 2 => freeSlots = firstSlots

\* C8 witness: two calls made on one array object that the first call
\* reordered in place, and slots were returned.
C8_Witness ==
    /\ calls >= 2
    /\ Len(callerBusy) = 2
    /\ callerBusy # busy
    /\ Len(freeSlots) >= 1

(***************************************************************************)
(* Properties of a turn (checked under AgentSpec).                         *)
(***************************************************************************)
TurnEnded == pc \in {"done", "rejected"}
FirstHasToolCalls == firstResponse.hasToolCalls /\ firstResponse.toolCalls # <<>>

\* C9: a turn issues at most two chat-completion calls and runs tool
\* dispatch at most once; after a model call has failed no further model
\* call is made and nothing is dispatched; tool calls in the finalize
\* response start no second round.
C9_BoundedTwoCallProtocol ==
    /\ modelCalls <= 2
    /\ dispatchRounds <= 1
    /\ failedModelCalls <= 1
    /\ failedModelCalls = 1 => pc \in {"catch", "done", "rejected"}
    /\ secondHasToolCalls => pc \in {"logResponse", "catch", "done", "rejected"}

\* C9 witness: a finished turn with two model calls and one dispatch round
\* whose finalize response again asked for tools.
C9_Witness ==
    /\ pc = "done"
    /\ modelCalls = 2
    /\ dispatchRounds = 1
    /\ Len(toolResults) = MaxToolCalls
    /\ secondHasToolCalls

\* C10 (as claimed): when the turn has ended after the first model call
\* returned, a first response without tool calls (tool_calls absent or
\* empty) means exactly one model call, no dispatch, and the first
\* response's text as the reply; a first response with at least one tool
\* call means exactly two model calls.
C10_FinalizeIffToolCalls ==
    (TurnEnded /\ firstReturned) =>
        IF FirstHasToolCalls
        THEN modelCalls = 2 /\ dispatchRounds = 1
        ELSE /\ modelCalls = 1
             /\ dispatchRounds = 0
             /\ (result.success /\ firstResponse.content /\ ~streaming)
                    => result.reply = "first"

\* Helpers over the turn's history.
ToolCallsOfTurn == firstResponse.toolCalls
Dispatched == dispatchRounds >= 1
DispatchFinished == Dispatched /\ pc # "executeTools"
UnknownCalls == {i \in 1..Len(ToolCallsOfTurn) : ToolCallsOfTurn[i].name \notin ToolNames}

\* C11: no tool handler starts before the first model call has returned,
\* none runs once the finalize call has started, and the finalize call
\* starts only after every tool call of the turn has produced its result.
C11_PhasesStrictlyOrdered ==
    [][ /\ (executions' # executions) =>
              (firstReturned /\ modelCalls = 1 /\ failedModelCalls = 0)
        /\ (modelCalls' # modelCalls /\ modelCalls >= 1) =>
              /\ Len(toolResults) = Len(ToolCallsOfTurn)
              /\ Len(executions) = Len(ToolCallsOfTurn)
      ]_vars

\* C11 witness: the finalize call has been issued after a full dispatch round
\* in which a handler ran.
C11_Witness ==
    /\ modelCalls = 2
    /\ Len(executions) = MaxToolCalls
    /\ \E i \in 1..Len(executions) : executions[i].handler

\* C12: whatever subset of the tool calls fails (handler failure, unparsable
\* arguments), executeTools runs every tool call of the list and returns
\* exactly one result entry per tool call, carrying that call's outcome; the
\* finalize call then takes place, and a tool failure alone never takes the
\* turn into its catch block.
C12_DispatchFaultIsolated ==
    /\ DispatchFinished =>
          /\ Len(toolResults) = Len(ToolCallsOfTurn)
          /\ \A i \in 1..Len(ToolCallsOfTurn) :
                /\ Cardinality({j \in 1..Len(toolResults) :
                                    toolResults[j].tool_call_id = i}) = 1
                /\ \E k \in 1..Len(executions) :
                      /\ executions[k].call = i
                      /\ executions[k].handler = HandlerInvoked(ToolCallsOfTurn[i])
                      /\ \E j \in 1..Len(toolResults) :
                            /\ toolResults[j].tool_call_id = i
                            /\ toolResults[j].result = executions[k].outcome
          /\ (pc = "finalCall" \/ modelCalls = 2)
    /\ (pc \in {"catch", "rejected"} \/ (pc = "done" /\ ~result.success)) =>
          (failedModelCalls >= 1 \/ storeFailures >= 1)

\* C12 witness: createEvent failed, getUpcomingEvents succeeded, and the turn
\* ended with the reply of the finalize call.
C12_Witness ==
    /\ pc = "done" /\ result.success /\ result.reply = "final"
    /\ Len(ToolCallsOfTurn) = 2
    /\ ToolCallsOfTurn[1].name = "createEvent"
    /\ ToolCallsOfTurn[2].name = "getUpcomingEvents"
    /\ Len(toolResults) = 2
    /\ toolResults[1].result = "failure"
    /\ toolResults[2].result = "success"

\* C13 (as claimed): every dispatch that ended in an error is reported as a
\* result object of the shape {success: false, error: message}; no entry
\* has another error shape.
C13_ErrorResultShape ==
    \A j \in 1..Len(toolResults) : toolResults[j].result \in {"success", "failure"}

\* C14: the results list preserves the order of the tool calls: entry i
\* carries the id and the outcome of tool call i, and the list handed to
\* the finalize call has one entry per tool call.
C14_ResultOrderPreserved ==
    /\ \A i \in 1..Len(toolResults) :
          /\ toolResults[i].tool_call_id = i
          /\ i <= Len(executions)
          /\ executions[i].call = i
          /\ toolResults[i].result = executions[i].outcome
    /\ Len(sent) = 2 =>
          LET last == sent[2][Len(sent[2])]
          IN  /\ last.kind = "tool"
              /\ last.results = toolResults
              /\ Len(last.results) = Len(ToolCallsOfTurn)

\* C14 witness: the finalize call received two results of different outcome.
C14_Witness ==
    /\ Len(sent) = 2
    /\ Len(toolResults) = 2
    /\ toolResults[1].result = "success"
    /\ toolResults[2].result = "failure"

C16_FirstCallFailureFallback ==
    (TurnEnded /\ failedModelCalls = 1 /\ ~firstReturned) =>
        /\ pc = "done"
        /\ result.reply = "apology"
        /\ ~result.success
        /\ executions = <<>>
        /\ toolResults = <<>>
        /\ modelCalls = 1

\* C17 (as claimed): whatever collaborators fail during the turn, the promise
\* of processRequest resolves with an object carrying a reply and never
\* rejects.
C17_NoExceptionEscapes ==
    TurnEnded => (pc = "done" /\ result.reply # "none")

C19_FirstCallMessages ==
    Len(sent) >= 1 =>
        LET m == sent[1]
            context == SubSeq(m, 2, Len(m) - 1)
        IN  /\ Len(m) >= 2
            /\ m[1].kind = "system"
            /\ m[Len(m)].kind = "user"
            /\ Len(context) <= 6
            /\ \A i \in 1..Len(context) :
                  /\ context[i].kind = "history"
                  /\ context[i].idx \in 1..chat.n
            /\ \A i \in 1..(Len(context) - 1) : context[i].idx < context[i + 1].idx
            /\ (~sessionId \/ ~chat.found \/ chat.n = 0) => context = <<>>

\* C19 witness: a session with more than 6 stored messages, 6 of them sent.
C19_Witness ==
    /\ Len(sent) >= 1
    /\ sessionId /\ chat.found /\ chat.n = MaxHistory
    /\ Len(sent[1]) = ContextMessages + 2

\* C20 (as claimed): in every mode, streaming included, a first response
\* that asks for tool execution is followed by the dispatch of its tool
\* calls and by one follow-up model call.
C20_ToolsDispatchedInEveryMode ==
    (TurnEnded /\ firstReturned /\ FirstHasToolCalls) =>
        /\ dispatchRounds = 1
        /\ Len(toolResults) = Len(ToolCallsOfTurn)
        /\ modelCalls = 2

\* C22 (as claimed): when the finalize model call fails after the dispatch,
\* processRequest returns the apology with success = false, and every tool
\* call of the turn has been executed exactly once (nothing is run again).
C22_FinalizeFailureFallback ==
    (TurnEnded /\ Dispatched /\ modelCalls = 2 /\ failedModelCalls = 1) =>
        /\ pc = "done"
        /\ result.reply = "apology"
        /\ ~result.success
        /\ Len(executions) = Len(ToolCallsOfTurn)
        /\ \A i \in 1..Len(executions) : executions[i].call = i

\* C23: every turn terminates: when each awaited collaborator call resolves
\* or rejects, the promise of processRequest is eventually settled, for every
\* list of tool calls, and stays settled.
C23_TurnTerminates == <>[]TurnEnded

\* C23 witness: a turn that dispatched the longest tool-call list has ended.
C23_Witness ==
    /\ pc = "done"
    /\ Len(executions) = MaxToolCalls
    /\ modelCalls = 2

\* C24 (as claimed): through POST /voice/process the message list of the
\* first model call holds the new utterance exactly once, as its last
\* message.
C24_UtteranceSentOnce ==
    (utteranceStored /\ Len(sent) >= 1) =>
        LET m == sent[1]
            IsUtterance(msg) == \/ msg.kind = "user"
                                \/ msg.kind = "history" /\ msg.idx = chat.n
        IN  /\ Cardinality({i \in 1..Len(m) : IsUtterance(m[i])}) = 1
            /\ IsUtterance(m[Len(m)])

\* C21 (as claimed): every calendar API call issued on behalf of a user is
\* made with that user's credentials on the OAuth client, however the
\* requests interleave.
C21_CallsUseOwnCredentials ==
    \A i \in 1..Len(apiCalls) : apiCalls[i].credentials = apiCalls[i].userId

\* Helpers over the operation performed on the Event collection.
EventTools == {"updateEvent", "deleteEvent", "sendInvite", "setReminder"}
TargetBefore == eventsBefore[lastOp.eventId]
StartChanged ==
    /\ lastOp.eventId \in EventIds
    /\ TargetBefore.exists
    /\ events[lastOp.eventId].startTime # TargetBefore.startTime

C26_CalendarAndStoreConsistent ==
    lastOp.kind = "createEvent" =>
        /\ lastOp.calendarCreated <=> lastOp.localSaved
        /\ lastOp.result # "success" =>
              (~lastOp.calendarCreated /\ ~lastOp.localSaved)

\* C30 (as claimed): whenever an operation changes the startTime of a stored
\* event, the saved event has reminderSent = false and reminderTime = the
\* new startTime minus 30 minutes; an event saved without a reminderTime
\* gets reminderTime = startTime minus 30 minutes.
C30_RescheduleResetsReminder ==
    /\ StartChanged =>
          /\ ~events[lastOp.eventId].reminderSent
          /\ events[lastOp.eventId].reminderTime =
                events[lastOp.eventId].startTime - ReminderMinutes
    /\ (lastOp.kind = "createEvent" /\ lastOp.localSaved) =>
          events[lastOp.eventId].reminderTime =
              events[lastOp.eventId].startTime - ReminderMinutes

\* Helpers over the cron callbacks fired.
Marked(trigger) == {i \in 1..Len(tasks) : tasks[i].trigger = trigger /\ tasks[i].marked}
Delivered(trigger) ==
    {i \in 1..Len(tasks) : tasks[i].trigger = trigger /\ tasks[i].pc = "delivered"}

\* C27 (as claimed): across any sequence of per-minute sweeps, overlapping
\* ones included, sendReminder marks and delivers a reminder for the event
\* at most once.
C27_AtMostOneReminderPerEvent ==
    /\ Cardinality(Marked("sweep")) <= 1
    /\ Cardinality(Delivered("sweep")) <= 1

\* C28 (as claimed): whatever triggers sendReminder, the sweep or a job of
\* scheduleReminder, a reminder is marked and sent only for an event that
\* was eligible when sendReminder was called: reminderSent false, not
\* cancelled, reminderTime <= now <= startTime.
C28_ReminderOnlyWhenEligible ==
    \A i \in 1..Len(tasks) : tasks[i].marked => tasks[i].eligible

\* C29 (as claimed): isRunning is true exactly when the sweep job is active;
\* after stop() the jobs map is empty and no cron job of the service is
\* still scheduled; no cron callback fires between stop() and the next
\* start().
C29_ServiceLifecycle ==
    /\ isRunning <=> (reminderJob = "active")
    /\ lastCall = "stop" =>
          /\ jobs = 0
          /\ reminderJob # "active"
          /\ \A j \in 1..Len(cronJobs) : ~cronJobs[j]
    /\ \A i \in 1..Len(tasks) : ~tasks[i].afterStop

====
